---- MODULE Spec2Model ----
(***************************************************************************)
(* Model of the slog formatting handler (handler.go, logger.go) and of the *)
(* discard handler (NullHandler).  Strings are sequences of one-character  *)
(* strings, so that splitting, joining and case folding are computed.      *)
(* Byte streams (the scratch buffer, the sink) are sequences of tokens: a   *)
(* character, or one encoded JSON object.                                  *)
(***************************************************************************)
EXTENDS Integers, Sequences, FiniteSets, TLC

(* ------------------------------ bounds --------------------------------- *)
NumCallers == 2
MaxHandlers == 2
MaxCalls == 2
MaxSeqCalls == 4

Callers == 1..NumCallers

(* ------------------------------ strings -------------------------------- *)
LevelKey == <<"l", "e", "v", "e", "l">>
MessageKey == <<"m", "s", "g">>
TimeKey == <<"t", "i", "m", "e">>
SourceKey == <<"s", "o", "u", "r", "c", "e">>

RawToken == <<"r", "a", "w">>

UpperChars == <<"D", "E", "B", "U", "G", "I", "N", "F", "O", "W", "A", "R">>
LowerChars == <<"d", "e", "b", "u", "g", "i", "n", "f", "o", "w", "a", "r">>

ToLowerChar(c) ==
    IF \E i \in DOMAIN UpperChars : UpperChars[i] = c
    THEN LowerChars[CHOOSE i \in DOMAIN UpperChars : UpperChars[i] = c]
    ELSE c

ToLower(s) == [i \in DOMAIN s |-> ToLowerChar(s[i])]

RECURSIVE SplitFrom(_, _, _)
SplitFrom(s, sep, cur) ==
    IF s = <<>> THEN <<cur>>
    ELSE IF Head(s) = sep THEN <<cur>> \o SplitFrom(Tail(s), sep, <<>>)
    ELSE SplitFrom(Tail(s), sep, Append(cur, Head(s)))

Split(s, sep) == SplitFrom(s, sep, <<>>)

RECURSIVE Join(_, _)
Join(parts, sep) ==
    IF parts = <<>> THEN <<>>
    ELSE IF Len(parts) = 1 THEN parts[1]
    ELSE parts[1] \o <<sep>> \o Join(Tail(parts), sep)

(* ------------------------------ levels --------------------------------- *)
LevelDebug == 0 - 4
LevelInfo == 0
LevelWarn == 4
LevelError == 8

Levels == {LevelDebug, LevelInfo, LevelWarn, LevelError}

LevelString(l) ==
    CASE l = LevelDebug -> <<"D", "E", "B", "U", "G">>
      [] l = LevelInfo -> <<"I", "N", "F", "O">>
      [] l = LevelWarn -> <<"W", "A", "R", "N">>
      [] OTHER -> <<"E", "R", "R", "O", "R">>

(* ParseLevel comparing the string as given.                              *)
ParseLevelCaseSensitive(level) ==
    CASE level = <<"d", "e", "b", "u", "g">> -> LevelDebug
      [] level = <<"e", "r", "r", "o", "r">> -> LevelError
      [] level = <<"w", "a", "r", "n">> -> LevelWarn
      [] OTHER -> LevelInfo

ParseLevel(level) ==
    LET l == ToLower(level) IN
    CASE l = <<"d", "e", "b", "u", "g">> -> LevelDebug
      [] l = <<"e", "r", "r", "o", "r">> -> LevelError
      [] l = <<"w", "a", "r", "n">> -> LevelWarn
      [] OTHER -> LevelInfo

(* ParseColor colorizing the lower-cased name.                            *)
ParseColorLower(level) ==
    LET l == ToLower(level) IN
    CASE l = <<"d", "e", "b", "u", "g">> -> <<"<white>">> \o l \o <<"<reset>">>
      [] l = <<"e", "r", "r", "o", "r">> -> <<"<red>">> \o l \o <<"<reset>">>
      [] l = <<"w", "a", "r", "n">> -> <<"<yellow>">> \o l \o <<"<reset>">>
      [] OTHER -> <<"<green>">> \o l \o <<"<reset>">>

ParseColor(level) ==
    LET l == ToLower(level) IN
    CASE l = <<"d", "e", "b", "u", "g">> -> <<"<white>">> \o level \o <<"<reset>">>
      [] l = <<"e", "r", "r", "o", "r">> -> <<"<red>">> \o level \o <<"<reset>">>
      [] l = <<"w", "a", "r", "n">> -> <<"<yellow>">> \o level \o <<"<reset>">>
      [] OTHER -> <<"<green>">> \o level \o <<"<reset>">>

CyanString(s) == <<"<cyan>">> \o s \o <<"<reset>">>

DigitChars == <<"0", "1", "2", "3", "4", "5", "6", "7", "8", "9">>

Itoa(n) == <<DigitChars[n + 1]>>

FormatDateTime(t) == <<"T">> \o Itoa(t)

(* --------------------------- slog values ------------------------------- *)
(* A slog.Value: kind, string payload, integer payload, group members.     *)
NilValue == [kind |-> "nil", s |-> <<>>, n |-> 0, attrs |-> <<>>]

StringValue(s) == [kind |-> "string", s |-> s, n |-> 0, attrs |-> <<>>]

IntValue(n) == [kind |-> "int", s |-> <<>>, n |-> n, attrs |-> <<>>]

GroupValue(as) == [kind |-> "group", s |-> <<>>, n |-> 0, attrs |-> as]

SourceValue(file, line) == [kind |-> "source", s |-> file, n |-> line, attrs |-> <<>>]

Attr(k, v) == [key |-> k, val |-> v]

EmptyAttr == Attr(<<>>, NilValue)

PanicAttr == Attr(<<>>, [kind |-> "panic", s |-> <<>>, n |-> 0, attrs |-> <<>>])

(* %#v rendering a string without its quotes, as %v does.                 *)
GoSyntaxPlain(v) ==
    CASE v.kind = "string" -> v.s
      [] v.kind = "int" -> Itoa(v.n)
      [] v.kind = "nil" -> <<"<nil>">>
      [] OTHER -> <<"&">> \o v.s \o <<":">> \o Itoa(v.n)

(* fmt.Sprintf("%#v", v): Go-syntax rendering of the value held by v.      *)
GoSyntax(v) ==
    CASE v.kind = "string" -> <<"\"">> \o v.s \o <<"\"">>
      [] v.kind = "int" -> Itoa(v.n)
      [] v.kind = "nil" -> <<"<nil>">>
      [] OTHER -> <<"&">> \o v.s \o <<":">> \o Itoa(v.n)

(* ------------------------------ paths ---------------------------------- *)
RECURSIVE LastIndex(_, _)
LastIndex(s, c) ==
    IF s = <<>> THEN 0
    ELSE IF s[Len(s)] = c THEN Len(s)
    ELSE LastIndex(SubSeq(s, 1, Len(s) - 1), c)

(* filepath.Split: everything up to and including the last slash, rest.    *)
PathSplit(path) ==
    LET i == LastIndex(path, "/") IN
    [dir |-> SubSeq(path, 1, i), file |-> SubSeq(path, i + 1, Len(path))]

RECURSIVE StripTrailingSlashes(_)
StripTrailingSlashes(s) ==
    IF s # <<>> /\ s[Len(s)] = "/"
    THEN StripTrailingSlashes(SubSeq(s, 1, Len(s) - 1))
    ELSE s

(* Base keeping the whole directory path.                                 *)
PathBaseWhole(path) ==
    IF path = <<>> THEN <<".">> ELSE StripTrailingSlashes(path)

(* filepath.Base *)
PathBase(path) ==
    IF path = <<>> THEN <<".">>
    ELSE LET p == StripTrailingSlashes(path)
             q == SubSeq(p, LastIndex(p, "/") + 1, Len(p))
         IN IF q = <<>> THEN <<"/">> ELSE q

(* filepath.Join(a, b) for a = Base(dir) (one element) and b a file name:  *)
(* the non-empty elements joined by a slash, then cleaned.                 *)
PathJoin(a, b) ==
    CASE b = <<>> \/ b = <<".">> -> a
      [] a = <<".">> -> b
      [] a = <<"/">> -> <<"/">> \o b
      [] OTHER -> a \o <<"/">> \o b

(* -------------------------- AttributeTransform ------------------------- *)
ReservedKeys == {LevelKey, MessageKey, TimeKey}

(* The hook letting an attribute keyed msg through.                        *)
ReplaceAttrKeepMsg(groups, a) ==
    IF a.key \in {LevelKey, TimeKey} THEN EmptyAttr
    ELSE LET key == Split(a.key, ";") IN
         IF a.key = SourceKey
         THEN IF a.val.kind # "source" THEN PanicAttr
              ELSE LET sp == PathSplit(a.val.s) IN
                   Attr(a.key, StringValue(
                       PathJoin(PathBase(sp.dir), sp.file) \o <<":">> \o Itoa(a.val.n)))
         ELSE IF key[1] = RawToken
         THEN Attr(Join(Tail(key), ";"), StringValue(GoSyntax(a.val)))
         ELSE a

(* The ReplaceAttr hook installed by NewLogger.                            *)
ReplaceAttr(groups, a) ==
    IF a.key \in ReservedKeys THEN EmptyAttr
    ELSE LET key == Split(a.key, ";") IN
         IF a.key = SourceKey
         THEN IF a.val.kind # "source" THEN PanicAttr
              ELSE LET sp == PathSplit(a.val.s) IN
                   Attr(a.key, StringValue(
                       PathJoin(PathBase(sp.dir), sp.file) \o <<":">> \o Itoa(a.val.n)))
         ELSE IF key[1] = RawToken
         THEN Attr(Join(Tail(key), ";"), StringValue(GoSyntax(a.val)))
         ELSE a

(* ------------------- delegate JSON encoding (slog) --------------------- *)
(* An encoded JSON value; an object is an ordered member list in which a    *)
(* key may occur more than once.                                           *)
JString(s) == [kind |-> "string", s |-> s, members |-> <<>>]

JNumber(n) == [kind |-> "number", s |-> Itoa(n), members |-> <<>>]

JObject(ms) == [kind |-> "object", s |-> <<>>, members |-> ms]

Member(k, v) == [k |-> k, v |-> v]

IsEmptyAttr(a) == a.key = <<>> /\ a.val.kind = "nil"

RECURSIVE AppendAttrs(_, _)
(* handleState.appendAttr: rewrite a non-group attribute with the hook,    *)
(* elide an empty result, nest a group under its key.                      *)
AppendAttr(groups, a0) ==
    LET a == IF a0.val.kind # "group" THEN ReplaceAttr(groups, a0) ELSE a0 IN
    IF IsEmptyAttr(a) THEN <<>>
    ELSE IF a.val.kind = "group"
    THEN LET inner == AppendAttrs(IF a.key = <<>> THEN groups ELSE Append(groups, a.key),
                                  a.val.attrs)
         IN IF inner = <<>> THEN <<>>
            ELSE IF a.key = <<>> THEN inner
            ELSE <<Member(a.key, JObject(inner))>>
    ELSE IF a.val.kind = "int" THEN <<Member(a.key, JNumber(a.val.n))>>
    ELSE <<Member(a.key, JString(a.val.s))>>

AppendAttrs(groups, as) ==
    IF as = <<>> THEN <<>>
    ELSE AppendAttr(groups, Head(as)) \o AppendAttrs(groups, Tail(as))

(* The bound state of the embedded JSON handler: the operations applied    *)
(* by WithAttrs and WithGroup, oldest first.                               *)
BoundAttrs(as) == [op |-> "attrs", attrs |-> as, name |-> <<>>]

BoundGroup(name) == [op |-> "group", attrs |-> <<>>, name |-> name]

RECURSIVE AppendNonBuiltIns(_, _, _)
(* Bound attributes, then the record's attributes inside the open groups;   *)
(* a group that ends up without members is not written.                    *)
AppendNonBuiltIns(chain, groups, recAttrs) ==
    IF chain = <<>> THEN AppendAttrs(groups, recAttrs)
    ELSE LET o == Head(chain) IN
         IF o.op = "attrs"
         THEN AppendAttrs(groups, o.attrs) \o AppendNonBuiltIns(Tail(chain), groups, recAttrs)
         ELSE LET inner == AppendNonBuiltIns(Tail(chain), Append(groups, o.name), recAttrs)
              IN IF inner = <<>> THEN <<>> ELSE <<Member(o.name, JObject(inner))>>

(* The built-in attributes, in the order the JSON handler emits them.      *)
BuiltIns(jh, r) ==
    <<Attr(TimeKey, StringValue(FormatDateTime(r.time))),
      Attr(LevelKey, StringValue(LevelString(r.level)))>>
    \o (IF jh.addSource THEN <<Attr(SourceKey, SourceValue(r.file, r.line))>> ELSE <<>>)
    \o <<Attr(MessageKey, StringValue(r.msg))>>

(* slog.JSONHandler.Handle: the members of the one object it writes.       *)
JSONHandlerEncode(jh, r) ==
    AppendAttrs(<<>>, BuiltIns(jh, r)) \o AppendNonBuiltIns(jh.chain, <<>>, r.attrs)

(* What one successful delegate call appends to its writer: one object      *)
(* and a newline; decodable is false when json.Unmarshal rejects a value.   *)
Chunk(ms, decodable) == [members |-> ms, decodable |-> decodable]

(* Enabled passing only the levels above the minimum.                     *)
JSONHandlerEnabledAbove(jh, level) == level > jh.level

JSONHandlerEnabled(jh, level) == level >= jh.level

JSONHandlerWithAttrs(jh, as) == [jh EXCEPT !.chain = Append(@, BoundAttrs(as))]

JSONHandlerWithGroup(jh, name) ==
    IF name = <<>> THEN jh ELSE [jh EXCEPT !.chain = Append(@, BoundGroup(name))]

(* ---------------------- json.Unmarshal / Marshal ----------------------- *)
(* A decoded value: a string, a float64 number or a map.                   *)
DString(s) == [kind |-> "string", s |-> s, obj |-> <<>>]

DNumber(s) == [kind |-> "number", s |-> s, obj |-> <<>>]

DObject(f) == [kind |-> "object", s |-> <<>>, obj |-> f]

MemberKeys(ms) == {ms[i].k : i \in DOMAIN ms}

(* Decoding that keeps the first member of a key.                         *)
FirstOf(ms, k) == ms[CHOOSE i \in DOMAIN ms : ms[i].k = k /\ \A j \in DOMAIN ms : ms[j].k = k => i <= j]

LastOf(ms, k) == ms[CHOOSE i \in DOMAIN ms : ms[i].k = k /\ \A j \in DOMAIN ms : ms[j].k = k => j <= i]

RECURSIVE DecodeValue(_)
(* Decoding an object into a map keeps the last member of each key.        *)
DecodeMembers(ms) == [k \in MemberKeys(ms) |-> DecodeValue(LastOf(ms, k).v)]

DecodeValue(v) ==
    CASE v.kind = "string" -> DString(v.s)
      [] v.kind = "number" -> DNumber(v.s)
      [] OTHER -> DObject(DecodeMembers(v.members))

(* json.Unmarshal(h.b.Bytes(), &attrs) succeeds on exactly one object.     *)
UnmarshalOk(bytes) == Len(bytes) = 1 /\ bytes[1].decodable

Unmarshal(bytes) == DecodeMembers(bytes[1].members)

(* json.Marshal / MarshalIndent of a map: keys sorted, so the text is       *)
(* determined by the map and the indentation.                              *)
Marshal(fields, indent) == [isJson |-> TRUE, text |-> <<>>, json |-> fields, indent |-> indent]

(* A run of plain bytes; byte strings are sequences of such segments.      *)
EmptyMap == [k \in {} |-> DString(<<>>)]

Text(s) == [isJson |-> FALSE, text |-> s, json |-> EmptyMap, indent |-> FALSE]

Newline == Text(<<"\n">>)

(* ------------------------------ inputs --------------------------------- *)
JsonFormat == <<"j", "s", "o", "n">>
TextFormat == <<"t", "e", "x", "t">>
BogusFormat == <<"b", "o", "g", "u", "s">>

SrcFile == <<"/", "s", "/", "p", "/", "m", ".", "g", "o">>

K == <<"k">>
G == <<"g">>
RawMsg == <<"r", "a", "w", ";", "m", "s", "g">>
V1 == <<"v", "1">>
V2 == <<"v", "2">>
M1 == <<"m", "1">>
M2 == <<"m", "2">>

Rec(level, msg, attrs, fault) ==
    [time |-> 1, level |-> level, msg |-> msg, attrs |-> attrs,
     file |-> SrcFile, line |-> 7, fault |-> fault]

(* The records handed to the handlers; a call names its record by its      *)
(* position here.  fault names the library call that rejects the record's  *)
(* values: the delegate encoder, json.Unmarshal or json.Marshal.           *)
Records ==
    << Rec(LevelInfo, M1, <<Attr(K, StringValue(V1)), Attr(MessageKey, StringValue(V2))>>, "none"),
      Rec(LevelError, M2, <<Attr(RawMsg, StringValue(V1)),
                            Attr(TimeKey, GroupValue(<<Attr(K, IntValue(5)),
                                                       Attr(LevelKey, StringValue(V2))>>))>>, "none"),
      Rec(LevelDebug, M2, <<Attr(K, StringValue(V2))>>, "encode"),
      Rec(LevelWarn, M1, <<>>, "decode"),
      Rec(LevelError, M1, <<>>, "marshal") >>

AttrLists == { <<>>, <<Attr(K, StringValue(V2))>> }

GroupNames == { G }

Opts(format, level, pretty, addSource, attr, null) ==
    [Format |-> format, Level |-> level, Pretty |-> pretty,
     AddSource |-> addSource, Attr |-> attr, Null |-> null]

OptionsSet ==
    { Opts(TextFormat, <<"D", "E", "B", "U", "G">>, TRUE, TRUE, <<>>, FALSE),
      Opts(BogusFormat, <<>>, FALSE, FALSE, <<Attr(K, StringValue(V1))>>, FALSE),
      Opts(TextFormat, <<"w", "a", "r", "n">>, TRUE, TRUE, <<Attr(K, StringValue(V1))>>, TRUE) }

(* ------------------------------ handlers ------------------------------- *)
(* A handler object; its index in handlers is its identity.  b and m name   *)
(* the scratch buffer and the mutex it points to.                          *)
NullHandler ==
    [kind |-> "null", format |-> <<>>, pretty |-> FALSE, b |-> 0, m |-> 0,
     jh |-> [level |-> 0, addSource |-> FALSE, chain |-> <<>>]]

(* NewHandler keeping whatever format it is given.                        *)
NewHandlerNoCoerce(opts) ==
    [kind |-> "fmt", format |-> opts.Format,
     pretty |-> opts.Pretty, b |-> 1, m |-> 1,
     jh |-> [level |-> ParseLevel(opts.Level), addSource |-> opts.AddSource, chain |-> <<>>]]

NewHandler(opts) ==
    [kind |-> "fmt",
     format |-> IF opts.Format \in {JsonFormat, TextFormat} THEN opts.Format ELSE JsonFormat,
     pretty |-> opts.Pretty, b |-> 1, m |-> 1,
     jh |-> [level |-> ParseLevel(opts.Level), addSource |-> opts.AddSource, chain |-> <<>>]]

(* WithAttrs copying even for an empty list.                               *)
WithAttrsAlwaysCopy(hs, i, attrs) ==
    [hs |-> Append(hs, [hs[i] EXCEPT !.jh = JSONHandlerWithAttrs(@, attrs)]),
     res |-> Len(hs) + 1]

(* WithAttrs binding the attributes in the receiver before copying it.     *)
WithAttrsInPlace(hs, i, attrs) ==
    IF Len(attrs) < 1 THEN [hs |-> hs, res |-> i]
    ELSE LET h2 == [hs[i] EXCEPT !.jh = JSONHandlerWithAttrs(@, attrs)] IN
         [hs |-> Append([hs EXCEPT ![i] = h2], h2), res |-> Len(hs) + 1]

(* Derivations take the handler objects and the receiver's index, and give  *)
(* the objects afterwards and the index of the handler returned.           *)
WithAttrs(hs, i, attrs) ==
    IF Len(attrs) < 1 THEN [hs |-> hs, res |-> i]
    ELSE [hs |-> Append(hs, [hs[i] EXCEPT !.jh = JSONHandlerWithAttrs(@, attrs)]),
          res |-> Len(hs) + 1]

(* WithGroup giving the copy a mutex of its own.                          *)
WithGroupOwnMutex(hs, i, name) ==
    [hs |-> Append(hs, [hs[i] EXCEPT !.jh = JSONHandlerWithGroup(@, name),
                                     !.m = Len(hs) + 1]),
     res |-> Len(hs) + 1]

WithGroup(hs, i, name) ==
    [hs |-> Append(hs, [hs[i] EXCEPT !.jh = JSONHandlerWithGroup(@, name)]),
     res |-> Len(hs) + 1]

NullWithAttrs(hs, i, attrs) == [hs |-> hs, res |-> i]

(* NullHandler.WithGroup returning a fresh handler.                        *)
NullWithGroupCopy(hs, i, name) == [hs |-> Append(hs, hs[i]), res |-> Len(hs) + 1]

NullWithGroup(hs, i, name) == [hs |-> hs, res |-> i]

NullEnabled(level) == FALSE

NullHandle(r) == "nil"

Enabled(h, level) ==
    IF h.kind = "null" THEN NullEnabled(level) ELSE JSONHandlerEnabled(h.jh, level)

(* NewLogger without the Null option, as SetLogger once was.               *)
NewLoggerNoNull(opts) == WithAttrs(<<NewHandler(opts)>>, 1, opts.Attr)

(* NewLogger: the handler objects it creates and the logger's handler.     *)
NewLogger(opts) ==
    IF opts.Null THEN [hs |-> <<NullHandler>>, res |-> 1]
    ELSE WithAttrs(<<NewHandler(opts)>>, 1, opts.Attr)

(* ------------------------------- state --------------------------------- *)
VARIABLES
    options,    \* the Options NewLogger was called with
    handlers,   \* the handler objects created so far
    logger,     \* the handler of the logger NewLogger returned
    mu,         \* mu[m]: mutex m is locked
    buf,        \* buf[b]: contents of scratch buffer b
    sink,       \* the Write calls the output sink has received
    pc,         \* pc[c]: where caller c stands in Handle
    frame,      \* frame[c]: the arguments and locals of caller c's Handle call
    returned,   \* returned[x]: how many log or Handle calls have ended with x
    derived,    \* the last derivation call, and whether it returned its receiver
    probe       \* the last call made on its own, with its arguments and result

vars == <<options, handlers, logger, mu, buf, sink, pc, frame, returned, derived, probe>>

Ids == 1..(MaxHandlers + 1)

NoFrame == [h |-> 0, r |-> 0, fields |-> EmptyMap,
            out |-> <<>>, ret |-> "none", writes |-> {}, werr |-> FALSE]

NoDerive == [op |-> "none", empty |-> FALSE, self |-> FALSE]

NoProbe == [fn |-> "none"]

Results == {"nil", "err", "skipped"}

Init ==
    /\ \E opts \in OptionsSet :
          LET l == NewLogger(opts) IN
          /\ options = opts
          /\ handlers = l.hs
          /\ logger = l.res
    /\ mu = [m \in Ids |-> FALSE]
    /\ buf = [b \in Ids |-> <<>>]
    /\ sink = <<>>
    /\ pc = [c \in Callers |-> "idle"]
    /\ frame = [c \in Callers |-> NoFrame]
    /\ returned = [x \in Results |-> 0]
    /\ derived = NoDerive
    /\ probe = NoProbe

H(c) == handlers[frame[c].h]

R(c) == Records[frame[c].r]

InCS(c) == pc[c] \in {"delegate", "decode", "write", "reset", "unlock"}

(* The log and Handle calls made so far, ended or not.                     *)
Started ==
    returned["nil"] + returned["err"] + returned["skipped"]
    + Cardinality({c \in Callers : pc[c] # "idle"})

(* ------------------------------ Handle --------------------------------- *)
(* handler.go 47-57: the seeded field set and the text prefix.             *)
Seed(h, r) ==
    IF h.format = JsonFormat
    THEN [fields |-> (LevelKey :> DString(ToLower(LevelString(r.level))))
                     @@ (MessageKey :> DString(r.msg))
                     @@ (TimeKey :> DString(FormatDateTime(r.time))),
          out |-> <<>>]
    ELSE [fields |-> EmptyMap,
          out |-> <<Text(FormatDateTime(r.time) \o <<" ">>
                         \o ParseColor(LevelString(r.level)) \o <<" ">>
                         \o CyanString(r.msg) \o <<" ">>)>>]

(* The merge leaving the decoded attributes out.                          *)
MergeFieldsSeededOnly(fields, attrs) == fields

(* The merge keeping a field that is already present.                     *)
MergeFieldsKeepSeeded(fields, attrs) ==
    [k \in (DOMAIN fields) \cup (DOMAIN attrs) |->
        IF k \in DOMAIN fields THEN fields[k] ELSE attrs[k]]

(* handler.go 68-70: decoded keys overwrite the fields already present.    *)
MergeFields(fields, attrs) ==
    [k \in (DOMAIN fields) \cup (DOMAIN attrs) |->
        IF k \in DOMAIN attrs THEN attrs[k] ELSE fields[k]]

(* A caller calls Handle of a formatting handler, through a logger or      *)
(* directly, and reaches the Lock call.  Until it holds the lock the call  *)
(* has read and written nothing: its receiver and its record enter the     *)
(* state when the lock is acquired.                                        *)
BeginHandle(c) ==
    /\ pc[c] = "idle"
    /\ Started < MaxCalls
    /\ \E i \in DOMAIN handlers : handlers[i].kind = "fmt"
    /\ pc' = [pc EXCEPT ![c] = "lock"]
    /\ UNCHANGED <<probe, options, handlers, logger, mu, buf, sink, frame, returned, derived>>

(* A log call through the logger at a level the handler does not enable:   *)
(* the logger returns without calling Handle.                              *)
LogSkip(c, i, r) ==
    /\ pc[c] = "idle"
    /\ Started < MaxCalls
    /\ ~Enabled(handlers[i], Records[r].level)
    /\ returned' = [returned EXCEPT !["skipped"] = @ + 1]
    /\ UNCHANGED <<probe, options, handlers, logger, mu, buf, sink, pc, frame, derived>>

(* NullHandler.Handle, called directly or by a logger that found the      *)
(* level enabled.                                                          *)
NullHandleCall(c, i, r, direct) ==
    /\ pc[c] = "idle"
    /\ Started < MaxCalls
    /\ handlers[i].kind = "null"
    /\ direct \/ Enabled(handlers[i], Records[r].level)
    /\ returned' = [returned EXCEPT ![NullHandle(Records[r])] = @ + 1]
    /\ UNCHANGED <<probe, options, handlers, logger, mu, buf, sink, pc, frame, derived>>

(* Handle entering without waiting for the mutex.                         *)
LockNoWait(c, i, r, direct) ==
    /\ pc[c] = "lock"
    /\ handlers[i].kind = "fmt"
    /\ direct \/ Enabled(handlers[i], Records[r].level)
    /\ mu' = [mu EXCEPT ![handlers[i].m] = TRUE]
    /\ LET sd == Seed(handlers[i], Records[r]) IN
       frame' = [frame EXCEPT ![c] = [NoFrame EXCEPT !.h = i, !.r = r,
                                                     !.fields = sd.fields, !.out = sd.out]]
    /\ pc' = [pc EXCEPT ![c] = "delegate"]
    /\ UNCHANGED <<probe, options, handlers, logger, buf, sink, returned, derived>>

(* handler.go 35-57: Handle of handler i, given record r, acquires the     *)
(* lock and seeds its output.  A logger calls it only for an enabled       *)
(* level.                                                                  *)
Lock(c, i, r, direct) ==
    /\ pc[c] = "lock"
    /\ handlers[i].kind = "fmt"
    /\ direct \/ Enabled(handlers[i], Records[r].level)
    /\ ~mu[handlers[i].m]
    /\ mu' = [mu EXCEPT ![handlers[i].m] = TRUE]
    /\ LET sd == Seed(handlers[i], Records[r]) IN
       frame' = [frame EXCEPT ![c] = [NoFrame EXCEPT !.h = i, !.r = r,
                                                     !.fields = sd.fields, !.out = sd.out]]
    /\ pc' = [pc EXCEPT ![c] = "delegate"]
    /\ UNCHANGED <<probe, options, handlers, logger, buf, sink, returned, derived>>

(* handler.go 59: the delegate encodes the record into the scratch buffer. *)
DelegateOk(c) ==
    /\ pc[c] = "delegate"
    /\ R(c).fault # "encode"
    /\ buf' = [buf EXCEPT ![H(c).b] =
                 Append(@, Chunk(JSONHandlerEncode(H(c).jh, R(c)),
                                 R(c).fault # "decode"))]
    /\ pc' = [pc EXCEPT ![c] = "decode"]
    /\ UNCHANGED <<probe, options, handlers, logger, mu, sink, frame, returned, derived>>

(* handler.go 59-61: the delegate fails, having written part or nothing.   *)
DelegateErr(c) ==
    /\ pc[c] = "delegate"
    /\ R(c).fault = "encode"
    /\ \E partial \in BOOLEAN :
          buf' = [buf EXCEPT ![H(c).b] = IF partial THEN Append(@, Chunk(<<>>, FALSE)) ELSE @]
    /\ frame' = [frame EXCEPT ![c].ret = "err"]
    /\ pc' = [pc EXCEPT ![c] = "reset"]
    /\ UNCHANGED <<probe, options, handlers, logger, mu, sink, returned, derived>>

(* The decode error returning without the deferred reset and unlock.      *)
DecodeErrNoDefer(c) ==
    /\ pc[c] = "decode"
    /\ ~UnmarshalOk(buf[H(c).b])
    /\ returned' = [returned EXCEPT !["err"] = @ + 1]
    /\ frame' = [frame EXCEPT ![c] = NoFrame]
    /\ pc' = [pc EXCEPT ![c] = "idle"]
    /\ UNCHANGED <<probe, options, handlers, logger, mu, buf, sink, derived>>

(* handler.go 64-66 *)
DecodeErr(c) ==
    /\ pc[c] = "decode"
    /\ ~UnmarshalOk(buf[H(c).b])
    /\ frame' = [frame EXCEPT ![c].ret = "err"]
    /\ pc' = [pc EXCEPT ![c] = "reset"]
    /\ UNCHANGED <<probe, options, handlers, logger, mu, buf, sink, returned, derived>>

(* handler.go 63-84: the buffer is decoded, its members are merged into    *)
(* the fields, and the fields are serialized after the prefix.             *)
MarshalOk(c) ==
    /\ pc[c] = "decode"
    /\ UnmarshalOk(buf[H(c).b])
    /\ R(c).fault # "marshal"
    /\ LET fields == MergeFields(frame[c].fields, Unmarshal(buf[H(c).b])) IN
       frame' = [frame EXCEPT ![c].fields = fields,
                              ![c].out = Append(@, Marshal(fields, H(c).pretty))]
    /\ pc' = [pc EXCEPT ![c] = "write"]
    /\ UNCHANGED <<probe, options, handlers, logger, mu, buf, sink, returned, derived>>

(* handler.go 72-84: the merged fields are not serializable.               *)
MarshalErr(c) ==
    /\ pc[c] = "decode"
    /\ UnmarshalOk(buf[H(c).b])
    /\ R(c).fault = "marshal"
    /\ frame' = [frame EXCEPT ![c].ret = "err"]
    /\ pc' = [pc EXCEPT ![c] = "reset"]
    /\ UNCHANGED <<probe, options, handlers, logger, mu, buf, sink, returned, derived>>

(* One entry of the sink: the bytes of one Write call, and the handler and *)
(* the record they were written for.                                       *)
Written(c, bytes) ==
    [bytes |-> bytes, h |-> frame[c].h, r |-> frame[c].r]

(* The write without the trailing newline.                                *)
SinkWriteNoNewline(c) ==
    /\ pc[c] = "write"
    /\ sink' = Append(sink, Written(c, frame[c].out))
    /\ \E ok \in BOOLEAN :
          frame' = [frame EXCEPT ![c].ret = "nil", ![c].werr = ~ok,
                                 ![c].writes = @ \cup {Len(sink) + 1}]
    /\ pc' = [pc EXCEPT ![c] = "reset"]
    /\ UNCHANGED <<probe, options, handlers, logger, mu, buf, returned, derived>>

(* The write with its error returned to the caller.                        *)
SinkWriteChecked(c) ==
    /\ pc[c] = "write"
    /\ sink' = Append(sink, Written(c, Append(frame[c].out, Newline)))
    /\ \E ok \in BOOLEAN :
          frame' = [frame EXCEPT ![c].ret = IF ok THEN "nil" ELSE "err", ![c].werr = ~ok,
                                 ![c].writes = @ \cup {Len(sink) + 1}]
    /\ pc' = [pc EXCEPT ![c] = "reset"]
    /\ UNCHANGED <<probe, options, handlers, logger, mu, buf, returned, derived>>

(* handler.go 86-88: one Write, which succeeds or fails; its result is     *)
(* dropped and Handle returns nil.                                         *)
SinkWrite(c) ==
    /\ pc[c] = "write"
    /\ sink' = Append(sink, Written(c, Append(frame[c].out, Newline)))
    /\ \E ok \in BOOLEAN :
          frame' = [frame EXCEPT ![c].ret = "nil", ![c].werr = ~ok,
                                 ![c].writes = @ \cup {Len(sink) + 1}]
    /\ pc' = [pc EXCEPT ![c] = "reset"]
    /\ UNCHANGED <<probe, options, handlers, logger, mu, buf, returned, derived>>

(* The deferred function leaving the buffer as it is.                     *)
ResetSkipped(c) ==
    /\ pc[c] = "reset"
    /\ pc' = [pc EXCEPT ![c] = "unlock"]
    /\ UNCHANGED <<probe, options, handlers, logger, mu, buf, sink, frame, returned, derived>>

(* handler.go 38: the deferred function resets the buffer ...              *)
Reset(c) ==
    /\ pc[c] = "reset"
    /\ buf' = [buf EXCEPT ![H(c).b] = <<>>]
    /\ pc' = [pc EXCEPT ![c] = "unlock"]
    /\ UNCHANGED <<probe, options, handlers, logger, mu, sink, frame, returned, derived>>

(* handler.go 39: ... and unlocks; Handle returns to its caller.           *)
Unlock(c) ==
    /\ pc[c] = "unlock"
    /\ mu' = [mu EXCEPT ![H(c).m] = FALSE]
    /\ returned' = [returned EXCEPT ![frame[c].ret] = @ + 1]
    /\ frame' = [frame EXCEPT ![c] = NoFrame]
    /\ pc' = [pc EXCEPT ![c] = "idle"]
    /\ UNCHANGED <<probe, options, handlers, logger, buf, sink, derived>>

(* ---------------------------- derivations ------------------------------ *)
Derive(op, i, n, d) ==
    /\ Len(d.hs) <= MaxHandlers
    /\ handlers' = d.hs
    /\ derived' = [op |-> op, empty |-> (n = 0), self |-> (d.res = i)]
    /\ UNCHANGED <<probe, options, logger, mu, buf, sink, pc, frame, returned>>

WithAttrsCall(i, attrs) ==
    /\ handlers[i].kind = "fmt"
    /\ Derive("WithAttrs", i, Len(attrs), WithAttrs(handlers, i, attrs))

WithGroupCall(i, name) ==
    /\ handlers[i].kind = "fmt"
    /\ Derive("WithGroup", i, 0, WithGroup(handlers, i, name))

NullWithAttrsCall(i, attrs) ==
    /\ handlers[i].kind = "null"
    /\ Derive("WithAttrs", i, Len(attrs), NullWithAttrs(handlers, i, attrs))

NullWithGroupCall(i, name) ==
    /\ handlers[i].kind = "null"
    /\ Derive("WithGroup", i, 0, NullWithGroup(handlers, i, name))

Next ==
    \/ \E c \in Callers : BeginHandle(c)
    \/ \E c \in Callers, i \in DOMAIN handlers, r \in DOMAIN Records : LogSkip(c, i, r)
    \/ \E c \in Callers, i \in DOMAIN handlers, r \in DOMAIN Records, direct \in BOOLEAN :
          NullHandleCall(c, i, r, direct)
    \/ \E c \in Callers, i \in DOMAIN handlers, r \in DOMAIN Records, direct \in BOOLEAN :
          Lock(c, i, r, direct)
    \/ \E c \in Callers : DelegateOk(c)
    \/ \E c \in Callers : DelegateErr(c)
    \/ \E c \in Callers : DecodeErr(c)
    \/ \E c \in Callers : MarshalOk(c)
    \/ \E c \in Callers : MarshalErr(c)
    \/ \E c \in Callers : SinkWrite(c)
    \/ \E c \in Callers : Reset(c)
    \/ \E c \in Callers : Unlock(c)
    \/ \E i \in DOMAIN handlers, attrs \in AttrLists : WithAttrsCall(i, attrs)
    \/ \E i \in DOMAIN handlers, name \in GroupNames : WithGroupCall(i, name)
    \/ \E i \in DOMAIN handlers, attrs \in AttrLists : NullWithAttrsCall(i, attrs)
    \/ \E i \in DOMAIN handlers, name \in GroupNames : NullWithGroupCall(i, name)

Spec == Init /\ [][Next]_vars

(* ------------------------------ properties ----------------------------- *)
AllIdle == \A c \in Callers : pc[c] = "idle"

(* Caller c's Handle call has run to its end and is about to return.       *)
Ending(c) == pc[c] = "unlock"

(* What Handle of handler h writes for record r when it runs alone.        *)
Render(h, r) ==
    LET sd == Seed(h, r)
        fields == MergeFields(sd.fields, DecodeMembers(JSONHandlerEncode(h.jh, r)))
    IN sd.out \o <<Marshal(fields, h.pretty), Newline>>

(* The record sink entry w was written for.                                *)
SinkRec(w) == Records[sink[w].r]

ContainsSub(s, t) == \E i \in 0..(Len(s) - Len(t)) : SubSeq(s, i + 1, i + Len(t)) = t

(* The bytes hold the string m, in plain text or in a top-level string     *)
(* field of the JSON object.                                               *)
ContainsMsg(bytes, m) ==
    \E j \in DOMAIN bytes :
        IF bytes[j].isJson
        THEN \E k \in DOMAIN bytes[j].json :
                 bytes[j].json[k].kind = "string" /\ ContainsSub(bytes[j].json[k].s, m)
        ELSE ContainsSub(bytes[j].text, m)

EndsWithNewline(bytes) == bytes # <<>> /\ bytes[Len(bytes)] = Newline

(* C1: at most one Handle call of the handler family is between acquiring  *)
(* and releasing the lock.                                                 *)
C1_MutualExclusion ==
    \A c1, c2 \in Callers : c1 # c2 => ~(InCS(c1) /\ InCS(c2))

C1_Witness ==
    \E c1, c2 \in Callers :
        /\ InCS(c1) /\ pc[c2] = "lock"
        /\ \E i \in DOMAIN handlers : i # frame[c1].h /\ handlers[i].kind = "fmt"

(* C2 as stated: every Handle call ends with exactly one                   *)
(* newline-terminated output in the sink, holding its own message and no   *)
(* differing message of another call.                                      *)
C2_Original ==
    \A c \in Callers :
        Ending(c) =>
            /\ Cardinality(frame[c].writes) = 1
            /\ \A w \in frame[c].writes :
                   /\ EndsWithNewline(sink[w].bytes)
                   /\ ContainsMsg(sink[w].bytes, R(c).msg)
                   /\ \A v \in DOMAIN sink :
                          SinkRec(v).msg # R(c).msg =>
                              ~ContainsMsg(sink[w].bytes, SinkRec(v).msg)

(* A decoded top-level member keyed msg replaces the seeded message.       *)
MsgReplaced(h, r) ==
    h.format = JsonFormat /\ MessageKey \in MemberKeys(JSONHandlerEncode(h.jh, r))

(* C2 amended: every Handle call whose record the encoder, the decoder and *)
(* the serializer accept ends with exactly one output in the sink, equal   *)
(* to the rendering of its own record by its own handler alone,            *)
(* newline-terminated and holding its own message unless a decoded member  *)
(* msg replaced it; a call whose record is rejected ends with none; once   *)
(* all calls are over the sink holds one output per successful call.       *)
C2_Concurrent ==
    /\ \A c \in Callers :
          Ending(c) =>
              IF R(c).fault = "none"
              THEN /\ frame[c].ret = "nil"
                   /\ Cardinality(frame[c].writes) = 1
                   /\ \A w \in frame[c].writes :
                          /\ sink[w].bytes = Render(H(c), R(c))
                          /\ EndsWithNewline(sink[w].bytes)
                          /\ \/ ContainsMsg(sink[w].bytes, R(c).msg)
                             \/ MsgReplaced(H(c), R(c))
              ELSE frame[c].writes = {}
    /\ \A c, d \in Callers : c # d => frame[c].writes \cap frame[d].writes = {}
    /\ \A w \in DOMAIN sink : SinkRec(w).fault = "none" /\ EndsWithNewline(sink[w].bytes)
    /\ AllIdle /\ handlers[1].kind = "fmt" => Len(sink) = returned["nil"]

C2_Witness ==
    /\ AllIdle
    /\ Len(sink) = 2
    /\ SinkRec(1).msg # SinkRec(2).msg
    /\ sink[1].h # sink[2].h

(* C3: whenever the lock is free the scratch buffer is empty, and every    *)
(* Handle call finds it empty when it starts encoding.                     *)
C3_BufferEmpty ==
    /\ \A i \in DOMAIN handlers :
          handlers[i].kind = "fmt" /\ ~mu[handlers[i].m] => buf[handlers[i].b] = <<>>
    /\ \A c \in Callers : pc[c] = "delegate" => buf[H(c).b] = <<>>

C3_Witness ==
    /\ returned["err"] > 0
    /\ \E c \in Callers : pc[c] = "delegate"

(* C4: a Handle call that returns an error has written nothing, one that   *)
(* returns success has issued exactly one write, and every write is a      *)
(* whole record ending with a newline.                                     *)
C4_AllOrNothing ==
    /\ \A c \in Callers :
          /\ frame[c].ret = "err" => frame[c].writes = {}
          /\ frame[c].ret = "nil" => Cardinality(frame[c].writes) = 1
          /\ InCS(c) /\ frame[c].ret = "none" => frame[c].writes = {}
    /\ \A c, d \in Callers : c # d => frame[c].writes \cap frame[d].writes = {}
    /\ handlers[1].kind = "fmt" =>
          Len(sink) = returned["nil"] + Cardinality(UNION {frame[c].writes : c \in Callers})
    /\ \A w \in DOMAIN sink : EndsWithNewline(sink[w].bytes)
    /\ \A c \in Callers : \A w \in frame[c].writes :
          sink[w].bytes = Render(H(c), R(c))

C4_Witness ==
    /\ AllIdle
    /\ returned["err"] = 1
    /\ returned["nil"] = 1
    /\ Len(sink) = 1

(* C5: Handle returns an error exactly when the delegate encoding, the     *)
(* decoding or the serialization fails; a failed sink write still returns  *)
(* success.                                                                *)
C5_ErrorIff ==
    \A c \in Callers :
        /\ Ending(c) =>
              /\ frame[c].ret \in {"nil", "err"}
              /\ frame[c].ret = "err" <=> R(c).fault \in {"encode", "decode", "marshal"}
        /\ frame[c].werr => frame[c].ret = "nil"

C5_Witness ==
    \E c \in Callers : Ending(c) /\ frame[c].werr /\ frame[c].ret = "nil"

(* C6: WithAttrs with an empty list returns its receiver itself, with a    *)
(* non-empty list a handler distinct from its receiver.                    *)
C6_WithAttrsIdentity ==
    /\ derived.op = "WithAttrs" /\ handlers[1].kind = "fmt" =>
          IF derived.empty THEN derived.self ELSE ~derived.self
    /\ ~options.Null => IF options.Attr = <<>> THEN logger = 1 ELSE logger # 1

C6_Witness ==
    /\ ~options.Null /\ options.Attr # <<>> /\ logger # 1
    /\ derived.op = "WithAttrs" /\ derived.empty /\ derived.self

(* C7: no step changes a handler that exists, and every record in the      *)
(* sink is rendered with the bound attributes of the handler it was        *)
(* handled by.                                                             *)
C7_ParentUnchanged ==
    /\ [][\A i \in DOMAIN handlers : i \in DOMAIN handlers' /\ handlers'[i] = handlers[i]]_vars
    /\ [](\A w \in DOMAIN sink : sink[w].bytes = Render(handlers[sink[w].h], SinkRec(w)))

(* Handler j was derived from handler i.                                   *)
Descends(j, i) ==
    LET cj == handlers[j].jh.chain
        ci == handlers[i].jh.chain
    IN j > i /\ Len(cj) > Len(ci) /\ SubSeq(cj, 1, Len(ci)) = ci

C7_Witness ==
    \E i, j \in DOMAIN handlers :
        /\ Descends(j, i)
        /\ \E w \in DOMAIN sink : sink[w].h = j
        /\ \E c \in Callers :
              /\ Ending(c) /\ frame[c].h = i
              /\ \A v \in frame[c].writes : sink[v].bytes = Render(handlers[i], R(c))
              /\ frame[c].writes # {}

(* C8: a logger built with Null set uses the discard handler; nothing is   *)
(* ever written and every Handle call returns success.                     *)
C8_NullSilent ==
    options.Null =>
        /\ handlers[logger].kind = "null"
        /\ \A i \in DOMAIN handlers : handlers[i].kind = "null"
        /\ sink = <<>>
        /\ \A b \in Ids : buf[b] = <<>>
        /\ returned["err"] = 0

C8_Witness ==
    /\ options.Null /\ options.Format = TextFormat /\ options.Attr # <<>>
    /\ derived.op # "none"
    /\ returned["nil"] > 0 /\ returned["skipped"] > 0

(* C9: the discard handler enables no level from debug to error, and its   *)
(* WithAttrs and WithGroup return the handler they were called on.         *)
C9_NullContract ==
    /\ \A i \in DOMAIN handlers :
          handlers[i].kind = "null" => \A l \in Levels : ~Enabled(handlers[i], l)
    /\ derived.op # "none" /\ handlers[1].kind = "null" =>
          derived.self /\ Len(handlers) = 1

C9_Witness ==
    /\ handlers[1].kind = "null"
    /\ derived.op = "WithAttrs" /\ ~derived.empty /\ derived.self
    /\ returned["skipped"] > 0

(* The values Handle seeds in JSON mode.                                   *)
Seeded(r) ==
    (LevelKey :> DString(ToLower(LevelString(r.level))))
    @@ (MessageKey :> DString(r.msg))
    @@ (TimeKey :> DString(FormatDateTime(r.time)))

JsonOf(bytes) == bytes[Len(bytes) - 1].json

JsonWrites == {w \in DOMAIN sink : handlers[sink[w].h].format = JsonFormat}

(* C10 as stated: in JSON mode level, msg and time of every emitted        *)
(* record are the seeded values, whatever keys the attributes use.         *)
C10_Original ==
    \A w \in JsonWrites :
        \A key \in ReservedKeys :
            JsonOf(sink[w].bytes)[key] = Seeded(SinkRec(w))[key]

RECURSIVE StripReserved(_)
(* The attributes without the non-group ones keyed level, msg or time.     *)
StripReserved(as) ==
    IF as = <<>> THEN <<>>
    ELSE LET a == Head(as) IN
         IF a.val.kind = "group"
         THEN <<Attr(a.key, GroupValue(StripReserved(a.val.attrs)))>> \o StripReserved(Tail(as))
         ELSE IF a.key \in ReservedKeys THEN StripReserved(Tail(as))
         ELSE <<a>> \o StripReserved(Tail(as))

RECURSIVE Survives(_)
(* Some attribute of the list is written by the encoder.                   *)
Survives(as) ==
    \E i \in DOMAIN as :
        IF as[i].val.kind = "group" THEN Survives(as[i].val.attrs)
        ELSE as[i].key \notin ReservedKeys

RECURSIVE Nested(_, _)
(* The bound operations and the record's attributes as one attribute list, *)
(* a WithGroup holding all that follows it.                                *)
Nested(chain, recAttrs) ==
    IF chain = <<>> THEN recAttrs
    ELSE IF Head(chain).op = "attrs" THEN Head(chain).attrs \o Nested(Tail(chain), recAttrs)
    ELSE <<Attr(Head(chain).name, GroupValue(Nested(Tail(chain), recAttrs)))>>

RECURSIVE Collides(_, _)
(* A top-level attribute keyed raw;<key>, or a non-empty top-level group   *)
(* named key.                                                              *)
Collides(as, key) ==
    \E i \in DOMAIN as :
        IF as[i].val.kind = "group"
        THEN \/ as[i].key = key /\ Survives(as[i].val.attrs)
             \/ as[i].key = <<>> /\ Collides(as[i].val.attrs, key)
        ELSE as[i].key = RawToken \o <<";">> \o key

RECURSIVE AllDropped(_)
AllDropped(as) ==
    \A i \in DOMAIN as :
        IF as[i].val.kind = "group" THEN AllDropped(as[i].val.attrs)
        ELSE as[i].key \in ReservedKeys => ReplaceAttr(<<>>, as[i]) = EmptyAttr

(* C10 amended: the transform drops every non-group attribute keyed level, *)
(* msg or time, so the output is the one of the record without them; in    *)
(* JSON mode level, msg and time are the seeded values unless a top-level  *)
(* attribute is keyed raw;level, raw;msg or raw;time or a non-empty        *)
(* top-level group is named level, msg or time, whose decoded value then   *)
(* replaces the seeded one.                                                *)
C10_ReservedDropped ==
    /\ \A c \in Callers :
          InCS(c) => AllDropped(Nested(H(c).jh.chain, R(c).attrs))
    /\ \A c \in Callers : \A w \in frame[c].writes :
          sink[w].bytes = Render(H(c), [R(c) EXCEPT !.attrs = StripReserved(@)])
    /\ \A c \in Callers : \A w \in frame[c].writes :
          LET h == H(c)
              r == R(c)
          IN h.format = JsonFormat => \A key \in ReservedKeys :
                 IF Collides(Nested(h.jh.chain, r.attrs), key)
                 THEN JsonOf(sink[w].bytes)[key] = Unmarshal(<<Chunk(JSONHandlerEncode(h.jh, r), TRUE)>>)[key]
                 ELSE JsonOf(sink[w].bytes)[key] = Seeded(r)[key]

C10_Witness ==
    \E w \in JsonWrites :
        LET r == SinkRec(w) IN
        /\ \E i \in DOMAIN r.attrs : r.attrs[i].key = MessageKey /\ r.attrs[i].val.kind = "string"
        /\ JsonOf(sink[w].bytes)[MessageKey] = DString(r.msg)

(* ----------------------- calls made on their own ------------------------ *)
(* The functions of the package applied to one argument at a time, and one  *)
(* log call made on a fresh logger with no other call in flight.  Each     *)
(* behaviour makes one such call on the state NewLogger leaves.            *)
ToUpperChar(c) ==
    IF \E i \in DOMAIN LowerChars : LowerChars[i] = c
    THEN UpperChars[CHOOSE i \in DOMAIN LowerChars : LowerChars[i] = c]
    ELSE c

(* The spellings of word w in every mix of upper and lower case.           *)
CaseVariants(w) ==
    { [i \in DOMAIN w |-> IF i \in S THEN ToUpperChar(w[i]) ELSE w[i]] : S \in SUBSET DOMAIN w }

LevelNames ==
    { <<"d", "e", "b", "u", "g">>, <<"i", "n", "f", "o">>,
      <<"w", "a", "r", "n">>, <<"e", "r", "r", "o", "r">> }

LevelStrings ==
    (UNION { CaseVariants(w) : w \in LevelNames })
    \cup { <<>>, <<"t", "r", "a", "c", "e">>, <<"w", "a", "r", "n", "i", "n", "g">>,
           <<"W", "A", "R", "N", "I", "N", "G">>, <<"e", "r", "r">>, <<"i", "n", "f">>,
           <<" ", "d", "e", "b", "u", "g">>, <<"d", "e", "b", "u", "g", " ">>,
           <<"f", "a", "t", "a", "l">>, <<"4">> }

Hello == <<"h", "e", "l", "l", "o">>
Boom == <<"b", "o", "o", "m">>
X == <<"x">>
RawX == <<"r", "a", "w", ";", "x">>

(* The records logged on their own; the encoder, the decoder and the       *)
(* serializer reject none of them.  The source paths are nested, one       *)
(* directory deep, under the root, bare and empty.                         *)
FnRecords ==
    { Rec(l, Hello, as, "none") :
        l \in Levels,
        as \in
          { <<>>,
            <<Attr(K, StringValue(V2))>>,
            <<Attr(X, IntValue(5))>>,
            <<Attr(K, StringValue(V1)), Attr(X, IntValue(5))>>,
            <<Attr(RawX, StringValue(V1))>>,
            <<Attr(RawX \o <<";", "y">>, IntValue(5))>>,
            <<Attr(RawToken \o <<";">>, StringValue(V1))>>,
            <<Attr(RawX, StringValue(V1)), Attr(X, StringValue(V1))>>,
            <<Attr(RawMsg, StringValue(V1))>>,
            <<Attr(MessageKey, StringValue(V2))>>,
            <<Attr(G, GroupValue(<<Attr(RawX, IntValue(5)), Attr(K, StringValue(V2))>>))>>,
            <<Attr(TimeKey, GroupValue(<<Attr(K, IntValue(5))>>))>> } }
    \cup { [Rec(LevelError, Boom, <<>>, "none") EXCEPT !.file = p] :
              p \in { <<"/", "a", "/", "s", "/", "p", "/", "m", ".", "g", "o">>, SrcFile,
                      <<"p", "/", "m", ".", "g", "o">>, <<"/", "m", ".", "g", "o">>,
                      <<"m", ".", "g", "o">>, <<>> } }
    \cup { Rec(l, RawToken, as, "none") :
              l \in {LevelInfo, LevelError}, as \in {<<>>, <<Attr(X, IntValue(5))>>} }
    \cup { Rec(LevelInfo, Hello, <<Attr(SourceKey, StringValue(SrcFile))>>, "none") }

FnOptions ==
    { Opts(f, l, p, s, a, FALSE) :
        f \in {JsonFormat, TextFormat, BogusFormat, <<>>, <<"T", "E", "X", "T">>},
        l \in {<<"w", "a", "r", "n">>, <<"d", "e", "b", "u", "g">>, <<>>},
        p \in BOOLEAN, s \in BOOLEAN,
        a \in {<<>>, <<Attr(K, StringValue(V1))>>} }

RECURSIVE Panics(_)
(* The hook panics on some non-group attribute of the list: nothing in the *)
(* encoder, in Handle or in the logger recovers, so the call panics.       *)
Panics(as) ==
    \E i \in DOMAIN as :
        IF as[i].val.kind = "group" THEN Panics(as[i].val.attrs)
        ELSE ReplaceAttr(<<>>, as[i]) = PanicAttr

(* One call of a logging method on the logger l of NewLogger, no other     *)
(* call in flight: the logger asks Enabled and then calls Handle.          *)
Emit(l, r) ==
    LET h == l.hs[l.res] IN
    IF ~Enabled(h, r.level) THEN [ret |-> "skipped", out |-> <<>>]
    ELSE IF h.kind = "null" THEN [ret |-> NullHandle(r), out |-> <<>>]
    ELSE IF Panics(r.attrs) THEN [ret |-> "panic", out |-> <<>>]
    ELSE [ret |-> "nil", out |-> Render(h, r)]

LogCall(opts, r) ==
    LET l == NewLogger(opts)
        e == Emit(l, r)
    IN /\ probe = NoProbe
       /\ probe' = [fn |-> "Log", opts |-> opts, r |-> r, h |-> l.hs[l.res],
                    ret |-> e.ret, out |-> e.out]
       /\ UNCHANGED <<options, handlers, logger, mu, buf, sink, pc, frame, returned, derived>>

(* NewHandler, two WithAttrs calls one on the result of the other, then    *)
(* one Handle call on the last handler.                                    *)
BoundLogCall(format, as1, as2, r) ==
    LET d1 == WithAttrs(<<NewHandler(Opts(format, <<>>, FALSE, FALSE, <<>>, FALSE))>>, 1, as1)
        d2 == WithAttrs(d1.hs, d1.res, as2)
        e == Emit(d2, r)
    IN /\ probe = NoProbe
       /\ probe' = [fn |-> "BoundLog", r |-> r, h |-> d2.hs[d2.res],
                    bound |-> as1 \o as2, ret |-> e.ret, out |-> e.out]
       /\ UNCHANGED <<options, handlers, logger, mu, buf, sink, pc, frame, returned, derived>>

ReplaceAttrCall(groups, a) ==
    /\ probe = NoProbe
    /\ probe' = [fn |-> "ReplaceAttr", groups |-> groups, a |-> a, res |-> ReplaceAttr(groups, a)]
    /\ UNCHANGED <<options, handlers, logger, mu, buf, sink, pc, frame, returned, derived>>

ParseLevelCall(s) ==
    /\ probe = NoProbe
    /\ probe' = [fn |-> "ParseLevel", s |-> s, level |-> ParseLevel(s)]
    /\ UNCHANGED <<options, handlers, logger, mu, buf, sink, pc, frame, returned, derived>>

(* The hook is handed attributes of every key shape and value kind; the    *)
(* attribute lists bound with WithAttrs and the per-call attributes of the *)
(* records logged on the derived handlers share and repeat keys.           *)
NextFn ==
    \/ \E s \in LevelStrings : ParseLevelCall(s)
    \/ \E groups \in {<<>>, <<G>>},
          k \in {K, <<>>, LevelKey, MessageKey, TimeKey, SourceKey, RawToken,
                 RawToken \o <<";">>, RawX, RawX \o <<";", "y">>, RawMsg},
          v \in {NilValue, StringValue(V1), StringValue(<<>>), IntValue(5),
                 SourceValue(SrcFile, 7), SourceValue(<<>>, 0)} :
          ReplaceAttrCall(groups, Attr(k, v))
    \/ \E opts \in FnOptions, r \in FnRecords : LogCall(opts, r)
    \/ \E format \in {JsonFormat, TextFormat},
          as1, as2 \in { <<>>,
                         <<Attr(K, StringValue(V1))>>,
                         <<Attr(K, IntValue(5)), Attr(X, IntValue(5))>>,
                         <<Attr(MessageKey, StringValue(V1))>> },
          as \in { <<>>, <<Attr(K, StringValue(V2))>>, <<Attr(X, StringValue(V1))>>,
                   <<Attr(MessageKey, StringValue(V2))>> } :
          BoundLogCall(format, as1, as2, Rec(LevelInfo, Hello, as, "none"))

SpecFn == Init /\ [][NextFn]_vars

(* The last call was a log call that wrote a record.                      *)
Logged == probe.fn = "Log" /\ probe.ret = "nil"

(* s spells word w, each letter in either case.                            *)
IsVariant(s, w) ==
    Len(s) = Len(w) /\ \A i \in DOMAIN w : s[i] \in {w[i], ToUpperChar(w[i])}

(* C19: ParseLevel gives the debug, warn and error levels for their names  *)
(* in any letter case, and the info level for every other string, the      *)
(* empty one and "info" in any case included.                              *)
C19_ParseLevel ==
    probe.fn = "ParseLevel" =>
        /\ IsVariant(probe.s, <<"d", "e", "b", "u", "g">>) => probe.level = LevelDebug
        /\ IsVariant(probe.s, <<"w", "a", "r", "n">>) => probe.level = LevelWarn
        /\ IsVariant(probe.s, <<"e", "r", "r", "o", "r">>) => probe.level = LevelError
        /\ IsVariant(probe.s, <<"i", "n", "f", "o">>) => probe.level = LevelInfo
        /\ (\A w \in LevelNames : ~IsVariant(probe.s, w)) => probe.level = LevelInfo

C19_Witness ==
    /\ probe.fn = "ParseLevel"
    /\ probe.s = <<"W", "a", "R", "n">>
    /\ probe.level = LevelWarn

(* C18: a logger built with a Format that is neither "json" nor "text",    *)
(* the empty string included, does for every record what the logger built  *)
(* with "json" and otherwise equal options does: the same call result and  *)
(* the same bytes, a JSON object holding level, msg and time and no text   *)
(* prefix.                                                                 *)
C18_FormatFallback ==
    (probe.fn = "Log" /\ probe.opts.Format \notin {JsonFormat, TextFormat}) =>
        LET j == Emit(NewLogger([probe.opts EXCEPT !.Format = JsonFormat]), probe.r) IN
        /\ probe.ret = j.ret
        /\ probe.out = j.out
        /\ Logged => /\ Len(probe.out) = 2
                     /\ probe.out[1].isJson
                     /\ ReservedKeys \subseteq DOMAIN probe.out[1].json
                     /\ probe.out[2] = Newline

C18_Witness ==
    /\ Logged
    /\ probe.opts.Format = <<>>
    /\ probe.r.msg = Hello
    /\ probe.out[1].isJson
    /\ probe.out[1].json[MessageKey] = DString(Hello)

(* C13 as stated: with the pretty flag set a record whose message is "raw" *)
(* is written as a dump of its fields and not as JSON, and a record with   *)
(* any other message as indented JSON.                                     *)
C13_Original ==
    (Logged /\ probe.opts.Pretty) =>
        IF probe.r.msg = RawToken
        THEN \A i \in DOMAIN probe.out : ~probe.out[i].isJson
        ELSE \E i \in DOMAIN probe.out : probe.out[i].isJson /\ probe.out[i].indent

(* C14 as stated: with Level "warn" a debug call emits nothing and an      *)
(* info, warn or error call each emits a record.                           *)
C14_Original ==
    (probe.fn = "Log" /\ probe.opts.Level = <<"w", "a", "r", "n">>) =>
        IF probe.r.level = LevelDebug THEN probe.out = <<>> ELSE probe.out # <<>>

(* C14 amended: with Level "warn" a debug call and an info call emit       *)
(* nothing, and a warn call and an error call each emit one record.        *)
C14_MinimumLevel ==
    (probe.fn = "Log" /\ probe.opts.Level = <<"w", "a", "r", "n">>) =>
        IF probe.r.level \in {LevelDebug, LevelInfo}
        THEN probe.ret = "skipped" /\ probe.out = <<>>
        ELSE probe.ret = "nil" /\ EndsWithNewline(probe.out)

C14_Witness ==
    /\ probe.fn = "Log"
    /\ probe.opts.Level = <<"w", "a", "r", "n">>
    /\ probe.r.level = LevelInfo
    /\ probe.out = <<>>

(* A text-format logger has written an error record with message "boom".   *)
BoomLogged ==
    /\ Logged
    /\ probe.h.format = TextFormat
    /\ probe.r.level = LevelError
    /\ probe.r.msg = Boom

SourceLogged == Logged /\ probe.opts.AddSource

SourceField == probe.out[Len(probe.out) - 1].json[SourceKey]

(* C16 as stated: for every path shape the source field is                 *)
(* <dir>/<file>:<line>, dir being the name of the file's parent directory. *)
C16_Original ==
    SourceLogged =>
        LET cs == SelectSeq(Split(probe.r.file, "/"), LAMBDA x : x # <<>>)
            n == Len(cs)
        IN /\ n >= 2
           /\ SourceField = DString(cs[n - 1] \o <<"/">> \o cs[n] \o <<":">> \o Itoa(probe.r.line))

(* C16 amended: the source field is <dir>/<file>:<line> when the path has  *)
(* a parent directory name, /<file>:<line> for a file directly under the   *)
(* root, <file>:<line> for a bare file name and .:<line> for the empty     *)
(* path; no path component before the parent directory survives.           *)
C16_SourceRewritten ==
    SourceLogged =>
        LET cs == SelectSeq(Split(probe.r.file, "/"), LAMBDA x : x # <<>>)
            n == Len(cs)
            loc == CASE n >= 2 -> cs[n - 1] \o <<"/">> \o cs[n]
                     [] n = 1 /\ Head(probe.r.file) = "/" -> <<"/">> \o cs[1]
                     [] n = 1 /\ Head(probe.r.file) # "/" -> cs[1]
                     [] OTHER -> <<".">>
        IN /\ SourceField = DString(loc \o <<":">> \o Itoa(probe.r.line))
           /\ Len(Split(SourceField.s, "/")) <= 2

C16_Witness ==
    /\ SourceLogged
    /\ probe.r.file = <<"/", "a", "/", "s", "/", "p", "/", "m", ".", "g", "o">>
    /\ SourceField = DString(<<"p", "/", "m", ".", "g", "o", ":", "7">>)

(* A key of the form raw;X, and its X.                                     *)
IsRaw(key) == Len(key) >= 4 /\ SubSeq(key, 1, 4) = RawToken \o <<";">>

RawRest(key) == SubSeq(key, 5, Len(key))

(* The field a string or integer value gives when logged as it is.         *)
PlainField(v) == IF v.kind = "int" THEN DNumber(Itoa(v.n)) ELSE DString(v.s)

(* Attribute a is written under key: a named group with a member that is   *)
(* written, a raw; attribute with X = key, or a plain attribute keyed key. *)
WritesKey(a, key) ==
    IF a.val.kind = "group" THEN a.key = key /\ Survives(a.val.attrs)
    ELSE IF IsRaw(a.key) THEN RawRest(a.key) = key
    ELSE IF a.key = RawToken THEN key = <<>>
    ELSE a.key = key /\ key \notin ReservedKeys

(* A later attribute of the list is written under the key of the i-th.     *)
Overwritten(as, i, key) == \E j \in DOMAIN as : j > i /\ WritesKey(as[j], key)

RECURSIVE RawCarried(_, _, _)
(* The object obj holds, for every non-group attribute keyed raw;X of the  *)
(* list, at the attribute's group path, a field X with the verbose         *)
(* rendering of its value, which is not the plain one; with always unset,  *)
(* attributes overwritten by a later one of their list are left out.       *)
RawCarried(obj, as, always) ==
    \A i \in DOMAIN as :
        LET a == as[i] IN
        IF a.val.kind = "group"
        THEN (a.key # <<>> /\ Survives(a.val.attrs) /\ ~Overwritten(as, i, a.key)) =>
                 /\ a.key \in DOMAIN obj
                 /\ obj[a.key].kind = "object"
                 /\ RawCarried(obj[a.key].obj, a.val.attrs, always)
        ELSE (IsRaw(a.key) /\ (always \/ ~Overwritten(as, i, RawRest(a.key)))) =>
                 /\ RawRest(a.key) \in DOMAIN obj
                 /\ obj[RawRest(a.key)] =
                        (IF a.val.kind = "int" THEN DString(Itoa(a.val.n))
                         ELSE DString(<<"\"">> \o a.val.s \o <<"\"">>))
                 /\ obj[RawRest(a.key)] # PlainField(a.val)

(* The bound and per-call attributes of the record just logged.            *)
LoggedAttrs == Nested(probe.h.jh.chain, probe.r.attrs)

(* C15 as stated: every attribute keyed raw;X gives a field keyed X whose  *)
(* value is the verbose rendering, different from the plain one.           *)
C15_Original ==
    Logged => RawCarried(JsonOf(probe.out), LoggedAttrs, TRUE)

(* C15 amended: every non-group attribute keyed raw;X that no later        *)
(* attribute of the same group overwrites gives, at its group path, a      *)
(* field keyed X whose value is the verbose rendering of its value, which  *)
(* differs from the field the same value gives under the plain key X.      *)
C15_RawRendered ==
    Logged => RawCarried(JsonOf(probe.out), LoggedAttrs, FALSE)

C15_Witness ==
    /\ Logged
    /\ probe.r.attrs = <<Attr(RawX \o <<";", "y">>, IntValue(5))>>
    /\ JsonOf(probe.out)[<<"x", ";", "y">>] = DString(<<"5">>)

(* C20: in JSON mode, for every key level, msg or time that the decoded    *)
(* mapping holds, the emitted record carries the decoded value.  The case  *)
(* is a caller that has written its record while the scratch buffer still  *)
(* holds what the delegate encoded for it.                                 *)
C20_DecodedWins ==
    \A c \in Callers :
      (pc[c] = "reset" /\ frame[c].writes # {} /\ H(c).format = JsonFormat) =>
        LET decoded == Unmarshal(buf[H(c).b]) IN
        \A w \in frame[c].writes : \A key \in ReservedKeys \cap DOMAIN decoded :
            JsonOf(sink[w].bytes)[key] = decoded[key]

C20_Witness ==
    \E c \in Callers :
        /\ pc[c] = "reset" /\ frame[c].writes # {} /\ H(c).format = JsonFormat
        /\ MessageKey \in DOMAIN Unmarshal(buf[H(c).b])
        /\ Unmarshal(buf[H(c).b])[MessageKey] # Seeded(R(c))[MessageKey]
        /\ \E w \in frame[c].writes :
               JsonOf(sink[w].bytes)[MessageKey] = DString(<<"\"", "v", "1", "\"">>)

(* A non-group attribute the hook passes on under its own key and value.   *)
IsPlain(a) ==
    /\ a.val.kind \in {"string", "int"}
    /\ a.key \notin ReservedKeys \cup {SourceKey, RawToken, <<>>}
    /\ ~IsRaw(a.key)

RECURSIVE PlainCarried(_, _, _)
(* The object obj holds every plain attribute of the list under its key    *)
(* with its value, the members of a named group inside the group's object; *)
(* with always unset, attributes overwritten by a later one of their list  *)
(* are left out.                                                           *)
PlainCarried(obj, as, always) ==
    \A i \in DOMAIN as :
        LET a == as[i] IN
        IF a.val.kind = "group"
        THEN (a.key # <<>> /\ Survives(a.val.attrs) /\ ~Overwritten(as, i, a.key)) =>
                 /\ a.key \in DOMAIN obj
                 /\ obj[a.key].kind = "object"
                 /\ PlainCarried(obj[a.key].obj, a.val.attrs, always)
        ELSE (IsPlain(a) /\ (always \/ ~Overwritten(as, i, a.key))) =>
                 /\ a.key \in DOMAIN obj
                 /\ obj[a.key] = PlainField(a.val)

(* A JSON-format logger has written a record.                              *)
JsonLogged == Logged /\ probe.h.format = JsonFormat

(* No attribute of the record is written under key.                        *)
Unclaimed(key) == \A i \in DOMAIN LoggedAttrs : ~WritesKey(LoggedAttrs[i], key)

(* C11 as stated: the output is one JSON object with the lower-case level, *)
(* the message, the time and every non-reserved bound or per-call          *)
(* attribute with its value.                                               *)
C11_Original ==
    JsonLogged =>
        /\ Len(probe.out) = 2 /\ probe.out[1].isJson
        /\ JsonOf(probe.out)[LevelKey] = DString(ToLower(LevelString(probe.r.level)))
        /\ JsonOf(probe.out)[MessageKey] = DString(probe.r.msg)
        /\ TimeKey \in DOMAIN JsonOf(probe.out)
        /\ PlainCarried(JsonOf(probe.out), LoggedAttrs, TRUE)

(* C11 amended: the output is one JSON object and a newline; it holds      *)
(* level, msg and time, which are the lower-case level name, the message   *)
(* and the formatted time unless an attribute is written under that key;   *)
(* and it holds, at its group path, every string or integer attribute      *)
(* whose key is not level, msg, time, source, raw or raw;X and that no     *)
(* later attribute of the same group overwrites, with its value.           *)
C11_AttributesCarried ==
    JsonLogged =>
        /\ Len(probe.out) = 2 /\ probe.out[1].isJson /\ probe.out[2] = Newline
        /\ ReservedKeys \subseteq DOMAIN JsonOf(probe.out)
        /\ Unclaimed(LevelKey) => JsonOf(probe.out)[LevelKey] = DString(ToLower(LevelString(probe.r.level)))
        /\ Unclaimed(MessageKey) => JsonOf(probe.out)[MessageKey] = DString(probe.r.msg)
        /\ Unclaimed(TimeKey) => JsonOf(probe.out)[TimeKey] = DString(FormatDateTime(probe.r.time))
        /\ PlainCarried(JsonOf(probe.out), LoggedAttrs, FALSE)

C11_Witness ==
    /\ JsonLogged
    /\ probe.opts.Attr = <<>> /\ ~probe.opts.AddSource
    /\ probe.r.level = LevelInfo /\ probe.r.msg = Hello
    /\ probe.r.attrs = <<Attr(K, StringValue(V2))>>
    /\ JsonOf(probe.out) = (LevelKey :> DString(<<"i", "n", "f", "o">>))
                            @@ (MessageKey :> DString(Hello))
                            @@ (TimeKey :> DString(FormatDateTime(1)))
                            @@ (K :> DString(V2))

(* ------------------------- calls one after another ---------------------- *)
(* One caller calling Handle again and again on the handlers of the        *)
(* logger, each call running through the steps of Handle before the next   *)
(* one starts.                                                             *)
SeqCaller == 1

BeginSeq(c) ==
    /\ pc[c] = "idle"
    /\ Started < MaxSeqCalls
    /\ \E i \in DOMAIN handlers : handlers[i].kind = "fmt"
    /\ pc' = [pc EXCEPT ![c] = "lock"]
    /\ UNCHANGED <<probe, options, handlers, logger, mu, buf, sink, frame, returned, derived>>

NextSeq ==
    \/ BeginSeq(SeqCaller)
    \/ \E i \in DOMAIN handlers, r \in DOMAIN Records, direct \in BOOLEAN :
          Lock(SeqCaller, i, r, direct)
    \/ DelegateOk(SeqCaller)
    \/ DelegateErr(SeqCaller)
    \/ DecodeErr(SeqCaller)
    \/ MarshalOk(SeqCaller)
    \/ MarshalErr(SeqCaller)
    \/ SinkWrite(SeqCaller)
    \/ Reset(SeqCaller)
    \/ Unlock(SeqCaller)

SpecSeq == Init /\ [][NextSeq]_vars

(* C17: a call that handles, on the same handler, a record already written *)
(* once returns nil and writes the same bytes again, whatever records were *)
(* handled in between and whether those calls succeeded or failed.         *)
C17_HistoryIndependent ==
    \A c \in Callers : Ending(c) =>
        \A w \in DOMAIN sink :
            (sink[w].h = frame[c].h /\ sink[w].r = frame[c].r) =>
                /\ frame[c].ret = "nil"
                /\ frame[c].writes # {}
                /\ \A w2 \in frame[c].writes : sink[w2].bytes = sink[w].bytes

C17_Witness ==
    /\ Ending(SeqCaller)
    /\ Len(sink) = 3
    /\ frame[SeqCaller].writes = {3}
    /\ sink[1].h = sink[3].h /\ sink[1].r = sink[3].r
    /\ sink[2].r # sink[1].r
    /\ returned["err"] > 0
    /\ sink[1].bytes = sink[3].bytes

(* A record has been written by a handler derived with WithAttrs.          *)
BoundLogged == probe.fn = "BoundLog" /\ probe.ret = "nil"

(* The value of the last attribute keyed key, bound or per-call.           *)
LastValue(key) ==
    LET as == probe.bound \o probe.r.attrs
        i == CHOOSE i \in DOMAIN as :
                 as[i].key = key /\ \A j \in DOMAIN as : as[j].key = key => j <= i
    IN as[i].val

(* C21 as stated: a key carried by a bound attribute and again by a later  *)
(* bound or per-call attribute is in the record with the value of the last *)
(* of them, the per-call one if there is one.                              *)
C21_Original ==
    BoundLogged =>
        LET as == probe.bound \o probe.r.attrs IN
        \A key \in { as[i].key : i \in { i \in DOMAIN probe.bound :
                         \E j \in DOMAIN as : j > i /\ as[j].key = as[i].key } } :
            /\ key \in DOMAIN JsonOf(probe.out)
            /\ JsonOf(probe.out)[key] = PlainField(LastValue(key))

(* C21 amended: the same for the keys the transform passes on unchanged,   *)
(* which leaves out level, msg and time, dropped wherever they are bound   *)
(* or passed, and source, raw and raw;X.                                   *)
C21_LastWins ==
    BoundLogged =>
        LET as == probe.bound \o probe.r.attrs
            repeated == { as[i].key : i \in { i \in DOMAIN probe.bound :
                             \E j \in DOMAIN as : j > i /\ as[j].key = as[i].key } }
        IN
        \A key \in { k \in repeated : IsPlain(Attr(k, LastValue(k))) } :
            /\ key \in DOMAIN JsonOf(probe.out)
            /\ JsonOf(probe.out)[key] = PlainField(LastValue(key))

C21_Witness ==
    /\ BoundLogged
    /\ probe.bound = <<Attr(K, StringValue(V1)), Attr(K, IntValue(5)), Attr(X, IntValue(5))>>
    /\ probe.r.attrs = <<Attr(K, StringValue(V2))>>
    /\ JsonOf(probe.out)[K] = DString(V2)
    /\ JsonOf(probe.out)[X] = DNumber(<<"5">>)

(* --------------------- derivations during a Handle call ----------------- *)
(* One caller in Handle while WithAttrs and WithGroup are called on the    *)
(* handlers; probe records what the derivation found: whether the mutex    *)
(* of its receiver was held and whether its buffer had contents.           *)

(* A derivation that takes the mutex of its receiver first.                *)
DeriveDuringWaits(op, i, d) ==
    /\ handlers[i].kind = "fmt"
    /\ ~mu[handlers[i].m]
    /\ Len(d.hs) <= MaxHandlers
    /\ handlers' = d.hs
    /\ probe' = [fn |-> "Derive", op |-> op, locked |-> mu[handlers[i].m],
                 inbuf |-> buf[handlers[i].b] # <<>>]
    /\ UNCHANGED <<options, logger, mu, buf, sink, pc, frame, returned, derived>>

DeriveDuring(op, i, d) ==
    /\ handlers[i].kind = "fmt"
    /\ Len(d.hs) <= MaxHandlers
    /\ handlers' = d.hs
    /\ probe' = [fn |-> "Derive", op |-> op, locked |-> mu[handlers[i].m],
                 inbuf |-> buf[handlers[i].b] # <<>>]
    /\ UNCHANGED <<options, logger, mu, buf, sink, pc, frame, returned, derived>>

WithAttrsDuring(i, attrs) == DeriveDuring("WithAttrs", i, WithAttrs(handlers, i, attrs))

WithGroupDuring(i, name) == DeriveDuring("WithGroup", i, WithGroup(handlers, i, name))

NextDer ==
    \/ BeginHandle(SeqCaller)
    \/ \E i \in DOMAIN handlers, r \in DOMAIN Records, direct \in BOOLEAN :
          Lock(SeqCaller, i, r, direct)
    \/ DelegateOk(SeqCaller)
    \/ DelegateErr(SeqCaller)
    \/ DecodeErr(SeqCaller)
    \/ MarshalOk(SeqCaller)
    \/ MarshalErr(SeqCaller)
    \/ SinkWrite(SeqCaller)
    \/ Reset(SeqCaller)
    \/ Unlock(SeqCaller)
    \/ \E i \in DOMAIN handlers, attrs \in AttrLists : WithAttrsDuring(i, attrs)
    \/ \E i \in DOMAIN handlers, name \in GroupNames : WithGroupDuring(i, name)

SpecDer == Init /\ [][NextDer]_vars

(* C22: WithAttrs and WithGroup can be called and return while a Handle    *)
(* call holds the mutex of their receiver; the step changes no mutex, no   *)
(* buffer, no call in flight and no output, and the call in flight writes  *)
(* what its handler writes for its record when it runs alone.              *)
C22_DerivationFrame ==
    /\ [](\A i \in DOMAIN handlers :
            (handlers[i].kind = "fmt" /\ mu[handlers[i].m] /\ Len(handlers) < MaxHandlers)
                => /\ ENABLED WithAttrsDuring(i, <<Attr(K, StringValue(V2))>>)
                   /\ ENABLED WithGroupDuring(i, G))
    /\ [][handlers' # handlers =>
              (mu' = mu /\ buf' = buf /\ sink' = sink /\ frame' = frame /\ pc' = pc)]_vars
    /\ [](\A c \in Callers : \A w \in frame[c].writes :
             sink[w].bytes = Render(H(c), R(c)))

C22_Witness ==
    /\ probe.fn = "Derive" /\ probe.locked /\ probe.inbuf
    /\ pc[SeqCaller] = "decode"
    /\ buf[H(SeqCaller).b] # <<>>
    /\ Len(handlers) = MaxHandlers

(* ------------------------ Handle calls, scheduled fairly ---------------- *)
(* The callers' Handle calls alone.  A goroutine that can take a step is   *)
(* scheduled in the end, and sync.Mutex hands the lock to a goroutine that *)
(* has waited (starvation mode), so a waiting Lock call is not passed over *)
(* for ever; whether a caller calls Handle at all is up to the caller.     *)
(* The delegate's Handle call returns: its step, DelegateOk or             *)
(* DelegateErr, is enabled exactly while pc[c] = "delegate", so weak       *)
(* fairness of it says that no caller stays at "delegate" for ever.        *)
NextLive ==
    \/ \E c \in Callers : BeginHandle(c)
    \/ \E c \in Callers, i \in DOMAIN handlers, r \in DOMAIN Records, direct \in BOOLEAN :
          Lock(c, i, r, direct)
    \/ \E c \in Callers : DelegateOk(c)
    \/ \E c \in Callers : DelegateErr(c)
    \/ \E c \in Callers : DecodeErr(c)
    \/ \E c \in Callers : MarshalOk(c)
    \/ \E c \in Callers : MarshalErr(c)
    \/ \E c \in Callers : SinkWrite(c)
    \/ \E c \in Callers : Reset(c)
    \/ \E c \in Callers : Unlock(c)

Fairness ==
    \A c \in Callers :
        /\ SF_vars(\E i \in DOMAIN handlers, r \in DOMAIN Records, direct \in BOOLEAN :
                      Lock(c, i, r, direct))
        /\ []<>(pc[c] # "delegate")
        /\ WF_vars(DecodeErr(c) \/ MarshalOk(c) \/ MarshalErr(c))
        /\ WF_vars(SinkWrite(c))
        /\ WF_vars(Reset(c))
        /\ WF_vars(Unlock(c))

SpecLive == Init /\ [][NextLive]_vars /\ Fairness

(* C23: a Handle call waiting for the lock acquires it in the end, a call  *)
(* holding the lock returns in the end, whether it succeeds or fails, and  *)
(* when no call is in flight no mutex is held.                             *)
C23_EventuallyReleased ==
    /\ \A c \in Callers : (pc[c] = "lock") ~> InCS(c)
    /\ \A c \in Callers : InCS(c) ~> (pc[c] = "idle")
    /\ [](AllIdle => \A m \in DOMAIN mu : ~mu[m])

C23_Witness ==
    \E c1, c2 \in Callers :
        /\ pc[c1] = "unlock" /\ frame[c1].ret = "err"
        /\ pc[c2] = "lock"

(* C24 as stated: the transform returns an attribute for every attribute   *)
(* it is given, and no log call panics, an attribute keyed source whose    *)
(* value is not a source location included.                                *)
C24_Original ==
    /\ probe.fn = "ReplaceAttr" => probe.res # PanicAttr
    /\ probe.fn = "Log" => probe.ret # "panic"

(* ------------------- the order of lock acquisitions --------------------- *)
(* The callers' Handle calls, with probe keeping the order in which the    *)
(* calls acquired the lock: caller, handler and record of each.            *)
Acquired == IF probe.fn = "Lock" THEN probe.acq ELSE <<>>

(* Handle entering without waiting for the mutex, its entry logged.        *)
LockLoggedNoWait(c, i, r, direct) ==
    /\ pc[c] = "lock"
    /\ handlers[i].kind = "fmt"
    /\ direct \/ Enabled(handlers[i], Records[r].level)
    /\ mu' = [mu EXCEPT ![handlers[i].m] = TRUE]
    /\ LET sd == Seed(handlers[i], Records[r]) IN
       frame' = [frame EXCEPT ![c] = [NoFrame EXCEPT !.h = i, !.r = r,
                                                     !.fields = sd.fields, !.out = sd.out]]
    /\ pc' = [pc EXCEPT ![c] = "delegate"]
    /\ probe' = [fn |-> "Lock", acq |-> Append(Acquired, [c |-> c, h |-> i, r |-> r])]
    /\ UNCHANGED <<options, handlers, logger, buf, sink, returned, derived>>

(* handler.go 35-57: Lock, with the acquisition appended to the order.     *)
LockLogged(c, i, r, direct) ==
    /\ pc[c] = "lock"
    /\ handlers[i].kind = "fmt"
    /\ direct \/ Enabled(handlers[i], Records[r].level)
    /\ ~mu[handlers[i].m]
    /\ mu' = [mu EXCEPT ![handlers[i].m] = TRUE]
    /\ LET sd == Seed(handlers[i], Records[r]) IN
       frame' = [frame EXCEPT ![c] = [NoFrame EXCEPT !.h = i, !.r = r,
                                                     !.fields = sd.fields, !.out = sd.out]]
    /\ pc' = [pc EXCEPT ![c] = "delegate"]
    /\ probe' = [fn |-> "Lock", acq |-> Append(Acquired, [c |-> c, h |-> i, r |-> r])]
    /\ UNCHANGED <<options, handlers, logger, buf, sink, returned, derived>>

NextOrd ==
    \/ \E c \in Callers : BeginHandle(c)
    \/ \E c \in Callers, i \in DOMAIN handlers, r \in DOMAIN Records, direct \in BOOLEAN :
          LockLogged(c, i, r, direct)
    \/ \E c \in Callers : DelegateOk(c)
    \/ \E c \in Callers : DelegateErr(c)
    \/ \E c \in Callers : DecodeErr(c)
    \/ \E c \in Callers : MarshalOk(c)
    \/ \E c \in Callers : MarshalErr(c)
    \/ \E c \in Callers : SinkWrite(c)
    \/ \E c \in Callers : Reset(c)
    \/ \E c \in Callers : Unlock(c)

SpecOrd == Init /\ [][NextOrd]_vars

(* The acquisitions whose record nothing rejects, in their order.          *)
AcquiredOk == SelectSeq(Acquired, LAMBDA a : Records[a.r].fault = "none")

(* C25: a record is in the sink only while or after its call holds the     *)
(* lock, the call that has just written still holds it, and the sink holds *)
(* the records of the successful calls in the order in which the calls     *)
(* acquired the lock; so the two records of two calls made one after the   *)
(* other by one caller are in call order.                                  *)
C25_SinkOrder ==
    /\ \A c \in Callers : frame[c].writes # {} => InCS(c) /\ mu[H(c).m]
    /\ Len(sink) <= Len(AcquiredOk)
    /\ \A w \in DOMAIN sink :
          sink[w].h = AcquiredOk[w].h /\ sink[w].r = AcquiredOk[w].r
    /\ \A c \in Callers : \A w \in frame[c].writes : AcquiredOk[w].c = c

C25_Witness ==
    /\ AllIdle
    /\ Len(Acquired) = 2
    /\ Acquired[1].c = Acquired[2].c
    /\ Acquired[1].r # Acquired[2].r
    /\ Len(sink) = 2
    /\ sink[1].r = Acquired[1].r /\ sink[2].r = Acquired[2].r

====
